---------------------------- MODULE Spec2Model ----------------------------
(***************************************************************************)
(* esmlab/statistics.py: the weight and dimension resolution               *)
(* (_get_weights_and_dims) and the six weighted reductions built on it     *)
(* (weighted_sum, weighted_mean, weighted_std, weighted_rmsd,              *)
(* weighted_cov, weighted_corr).                                           *)
(*                                                                         *)
(* A labelled array is a record [some, dims, shape, data]: dims the axis   *)
(* names in order, shape the axis lengths, data a function from index      *)
(* tuples to values.  Arithmetic between arrays matches axes by name, as   *)
(* xarray does.  A value is a float modelled exactly: NaN, +/-Inf, or      *)
(* (n/d)*sqrt(rn/rd) with rn/rd = 1 for a rational number.                 *)
(***************************************************************************)
EXTENDS Integers, Sequences, FiniteSets, TLC

VARIABLES x, y, weights, dim, ddof, pc, op, op_over_dims, res

vars == <<x, y, weights, dim, ddof, pc, op, op_over_dims, res>>

---------------------------------------------------------------------------
(* Bounds of the model. *)

\* longest axis of an array
MaxLen == 2
\* most missing elements in x
MaxMissing == 2
\* largest ddof passed to weighted_std
MaxDdof == 1

---------------------------------------------------------------------------
(* Floating-point values. *)

RECURSIVE GCD(_, _)
GCD(a, b) == IF b = 0 THEN a ELSE GCD(b, a % b)

Abs(i) == IF i < 0 THEN -i ELSE i

Raw(kind, n, d, rn, rd) == [k |-> kind, n |-> n, d |-> d, rn |-> rn, rd |-> rd]

\* the rational n/d, d # 0, in lowest terms with a positive denominator
Q(n, d) ==
    LET g == GCD(Abs(n), Abs(d))
        s == IF d < 0 THEN -1 ELSE 1
    IN  Raw("q", (s * n) \div g, (s * d) \div g, 1, 1)

Num(i) == Q(i, 1)

NaN == Raw("nan", 0, 1, 1, 1)

Inf(s) == Raw("inf", s, 1, 1, 1)

IsNaN(v) == v.k = "nan"

IsFinite(v) == v.k \in {"q", "surd"}

IsZero(v) == v.k = "q" /\ v.n = 0

Sign(v) == IF v.n < 0 THEN -1 ELSE IF v.n > 0 THEN 1 ELSE 0

Neg(a) == IF a.k = "nan" THEN NaN ELSE Raw(a.k, -a.n, a.d, a.rn, a.rd)

\* the sum and the product of two rationals, reduced before multiplying
AddQ(a, b) ==
    LET g == GCD(a.d, b.d)
    IN  Q(a.n * (b.d \div g) + b.n * (a.d \div g), (a.d \div g) * b.d)

MulQ(a, b) ==
    LET p == Q(a.n, b.d)
        r == Q(b.n, a.d)
    IN  Raw("q", p.n * r.n, p.d * r.d, 1, 1)

\* 1 / b for a rational b # 0
InvQ(b) == Q(b.d, b.n)

\* a + b (operands are NaN, Inf or rational)
Add(a, b) ==
    IF IsNaN(a) \/ IsNaN(b) THEN NaN
    ELSE IF a.k = "inf" /\ b.k = "inf" THEN (IF a.n = b.n THEN a ELSE NaN)
    ELSE IF a.k = "inf" THEN a
    ELSE IF b.k = "inf" THEN b
    ELSE AddQ(a, b)

Sub(a, b) == Add(a, Neg(b))

\* a * b (operands are NaN, Inf or rational)
Mul(a, b) ==
    IF IsNaN(a) \/ IsNaN(b) THEN NaN
    ELSE IF a.k = "inf" \/ b.k = "inf"
         THEN (IF Sign(a) * Sign(b) = 0 THEN NaN ELSE Inf(Sign(a) * Sign(b)))
    ELSE MulQ(a, b)

\* a / b; b may be the square root of a rational (np.sqrt's result):
\* a / (c * sqrt(r)) = (a / (c * r)) * sqrt(r)
Div(a, b) ==
    IF IsNaN(a) \/ IsNaN(b) THEN NaN
    ELSE IF b.k = "inf" THEN (IF a.k = "inf" THEN NaN ELSE Num(0))
    ELSE IF IsZero(b) THEN (IF Sign(a) = 0 THEN NaN ELSE Inf(Sign(a)))
    ELSE IF a.k = "inf" THEN Inf(Sign(a) * Sign(b))
    ELSE IF b.k = "surd"
         THEN LET c == MulQ(MulQ(a, InvQ(Q(b.n, b.d))), Q(b.rd, b.rn))
              IN  IF c.n = 0 THEN c ELSE Raw("surd", c.n, c.d, b.rn, b.rd)
    ELSE MulQ(a, InvQ(b))

RECURSIVE RootBetween(_, _, _)
\* the largest r in lo..hi with r*r <= n
RootBetween(n, lo, hi) ==
    IF lo >= hi THEN lo
    ELSE LET mid == (lo + hi + 1) \div 2
         IN  IF mid * mid <= n THEN RootBetween(n, mid, hi)
             ELSE RootBetween(n, lo, mid - 1)

\* bounded so that mid * mid stays a machine integer
ISqrt(n) == RootBetween(n, 0, IF n < 40000 THEN n ELSE 40000)

IsSquare(n) == ISqrt(n) * ISqrt(n) = n

\* np.sqrt
Sqrt(a) ==
    IF IsNaN(a) THEN NaN
    ELSE IF a.k = "inf" THEN (IF a.n > 0 THEN a ELSE NaN)
    ELSE IF a.n < 0 THEN NaN
    ELSE IF IsSquare(a.n) /\ IsSquare(a.d) THEN Q(ISqrt(a.n), ISqrt(a.d))
    ELSE Raw("surd", 1, 1, a.n, a.d)

Square(a) == Mul(a, a)

---------------------------------------------------------------------------
(* Labelled arrays (xarray.DataArray without coordinates). *)

RECURSIVE Table(_, _)
\* the function f on S written out element by element, so that it is computed
\* once and not at every application
Table(S, f) ==
    IF S = {} THEN <<>>
    ELSE LET e == CHOOSE e \in S : TRUE
         IN  (e :> f[e]) @@ Table(S \ {e}, f)

Arr(dims, shape, data) ==
    [some |-> TRUE, dims |-> dims, shape |-> shape, data |-> Table(DOMAIN data, data)]

\* Python's None where an array is expected
None == [some |-> FALSE, dims |-> <<>>, shape |-> <<>>, data |-> <<>>]

Has(dims, name) == \E i \in 1..Len(dims) : dims[i] = name

Pos(dims, name) == CHOOSE i \in 1..Len(dims) : dims[i] = name

\* all index tuples of an array of this shape
Idx(shape) ==
    LET top == IF shape = <<>> THEN 0
               ELSE CHOOSE m \in {shape[i] : i \in 1..Len(shape)} :
                        \A i \in 1..Len(shape) : shape[i] <= m
    IN  {t \in [1..Len(shape) -> 1..top] : \A i \in 1..Len(shape) : t[i] <= shape[i]}

\* the element of A at the position that t names over the axes dims
At(A, dims, t) == A.data[[i \in 1..Len(A.dims) |-> t[Pos(dims, A.dims[i])]]]

\* two arrays share an axis name with different lengths: xarray cannot align them
Conflict(A, B) ==
    \E i \in 1..Len(A.dims) :
        Has(B.dims, A.dims[i]) /\ B.shape[Pos(B.dims, A.dims[i])] # A.shape[i]

\* positions of the axes of B that A lacks
ExtraAxes(A, B) ==
    SelectSeq([i \in 1..Len(B.dims) |-> i], LAMBDA i : ~Has(A.dims, B.dims[i]))

\* element-wise F over the name-aligned broadcast of A and B; the axes of A
\* come first, then those only B has
Zip(F(_, _), A, B) ==
    LET e     == ExtraAxes(A, B)
        dims  == A.dims \o [j \in 1..Len(e) |-> B.dims[e[j]]]
        shape == A.shape \o [j \in 1..Len(e) |-> B.shape[e[j]]]
    IN  Arr(dims, shape, [t \in Idx(shape) |-> F(At(A, dims, t), At(B, dims, t))])

Map(F(_), A) == Arr(A.dims, A.shape, [t \in DOMAIN A.data |-> F(A.data[t])])

RECURSIVE NanSum(_, _)
\* the sum of f over S, NaN counted as zero (xarray's skipna)
NanSum(S, f) ==
    IF S = {} THEN Num(0)
    ELSE LET e == CHOOSE e \in S : TRUE
         IN  Add(IF IsNaN(f[e]) THEN Num(0) ELSE f[e], NanSum(S \ {e}, f))

\* A.sum(over): the axes named in over are removed
Sum(A, over) ==
    LET keep  == SelectSeq([i \in 1..Len(A.dims) |-> i], LAMBDA i : ~Has(over, A.dims[i]))
        dims  == [j \in 1..Len(keep) |-> A.dims[keep[j]]]
        shape == [j \in 1..Len(keep) |-> A.shape[keep[j]]]
    IN  Arr(dims, shape,
            [t \in Idx(shape) |->
                NanSum({u \in DOMAIN A.data : \A j \in 1..Len(keep) : u[keep[j]] = t[j]},
                       A.data)])

\* x.notnull()
notnull(A) == Map(LAMBDA v : ~IsNaN(v), A)

\* weights broadcast against valid with nothing masked out
whereUnmasked(W, valid) == Zip(LAMBDA w, v : w, W, valid)

\* weights.where(valid): the axes of weights first, NaN where valid is false
where(W, valid) == Zip(LAMBDA w, v : IF v THEN w ELSE NaN, W, valid)

---------------------------------------------------------------------------
(* The dim argument: absent, one axis name, or a list of axis names. *)

DimNone == [t |-> "none", v |-> <<>>]

DimStr(name) == [t |-> "str", v |-> <<name>>]

DimList(names) == [t |-> "list", v |-> names]

---------------------------------------------------------------------------
(* _get_weights_and_dims *)

\* lines 24-31: the requested axis names
RequestedDims(X, d) ==
    IF d.t = "str" /\ d.v # <<"">> THEN d.v
    ELSE IF d.t = "list" THEN d.v
    ELSE X.dims

\* the requested axes taken in the order of x's own axes instead
OpOverDimsInArrayOrder(X, d) ==
    SelectSeq(X.dims, LAMBDA k : Has(RequestedDims(X, d), k))

\* line 33: the requested names that are axes of x, in the requested order
OpOverDims(X, d) == SelectSeq(RequestedDims(X, d), LAMBDA k : Has(X.dims, k))

\* line 37: the lengths of the reduction axes, in the order of x's own axes
DimsShape(X, over) ==
    LET keep == SelectSeq([i \in 1..Len(X.dims) |-> i], LAMBDA i : Has(over, X.dims[i]))
    IN  [j \in 1..Len(keep) |-> X.shape[keep[j]]]

\* line 39: np.ones(dims_shape) labelled with op_over_dims
DefaultWeights(X, over) ==
    LET shape == DimsShape(X, over)
    IN  Arr(over, shape, [t \in Idx(shape) |-> Num(1)])

\* a mask that ignores the missing elements of y
ValidOfXOnly(X, Y) == notnull(X)

\* lines 45-49: the validity mask
Valid(X, Y) ==
    IF Y.some THEN Zip(LAMBDA a, b : a /\ b, notnull(X), notnull(Y))
    ELSE notnull(X)

\* lines 55-57: every sum of weights / weights.sum(dims) over dims is 1.0
Normalized(W, over) ==
    LET s == Sum(Zip(Div, W, Sum(W, over)), over)
    IN  \A t \in DOMAIN s.data : s.data[t] = Num(1)

Resolved(exc, at, W, over, log) ==
    [exc |-> exc, at |-> at, weights |-> W, op_over_dims |-> over, log |-> log]

\* what the caller's array would hold had line 52 written into it
MaskedInPlace(W, masked) == IF masked.some THEN masked ELSE W

\* line 52 rebinds the local name to the array where() returns: the array the
\* caller passed as weights holds afterwards what it held before
PassedWeightsAfter(W, masked) == W

\* the masked weights returned without the check of lines 55-57
Unchecked(w, over) == Resolved("", 0, w, over, <<"mask">>)

\* lines 54-58: the masked weights are checked and returned
CheckNormalized(w, over) ==
    IF ~Normalized(w, over) THEN Resolved("AssertionError", 55, None, over, <<"mask">>)
    ELSE Resolved("", 0, w, over, <<"mask">>)

\* lines 51-58: where() cannot align arrays that differ in length along an axis
MaskAndCheck(w0, valid, over) ==
    IF Conflict(w0, valid) THEN Resolved("ValueError", 52, None, over, <<>>)
    ELSE CheckNormalized(where(w0, valid), over)

\* lines 34-58 without the assertions of lines 42 and 46
ResolveOverUnasserted(X, Y, W, over) ==
    IF over = <<>> THEN Resolved("ValueError", 35, None, over, <<>>)
    ELSE MaskAndCheck(IF W.some THEN W ELSE DefaultWeights(X, over), Valid(X, Y), over)

\* lines 34-58, with op_over_dims computed
ResolveOver(X, Y, W, over) ==
    IF over = <<>> THEN Resolved("ValueError", 35, None, over, <<>>)
    ELSE IF W.some /\ W.shape # DimsShape(X, over)
    THEN Resolved("AssertionError", 42, None, over, <<>>)
    ELSE IF Y.some /\ X.shape # Y.shape
    THEN Resolved("AssertionError", 46, None, over, <<>>)
    ELSE MaskAndCheck(IF W.some THEN W ELSE DefaultWeights(X, over), Valid(X, Y), over)

\* the whole function; exc is "" when it returns, else the exception raised
\* at source line at
_get_weights_and_dims(X, Y, W, d) == ResolveOver(X, Y, W, OpOverDims(X, d))

---------------------------------------------------------------------------
(* The six operators.  Each returns [exc, at, val, log, mean_x, mean_y]:   *)
(* the exception raised and its source line (exc = "" on return), the      *)
(* returned array, the events of the call in order (warnings, "mask" for   *)
(* line 52, "arith" for arithmetic on the data), and weighted_cov's two    *)
(* intermediate means.                                                     *)

Warning(what) == "Computing " \o what \o " with equal weights for all data points"

\* a warning whether or not the caller gave weights
WarnAlways(W, what) == <<Warning(what)>>

\* lines 86-87 and their like: warn(...) when the caller omitted weights
WarnIfNone(W, what) == IF W.some THEN <<>> ELSE <<Warning(what)>>

Raised(r, log) ==
    [exc |-> r.exc, at |-> r.at, val |-> None, log |-> log,
     mean_x |-> None, mean_y |-> None]

Returned(val, log) ==
    [exc |-> "", at |-> 0, val |-> val, log |-> log, mean_x |-> None, mean_y |-> None]

\* get_original_attrs / update_attrs: metadata only, the data is returned as is
update_attrs(A) == A

\* lines 90-93
SumResolved(X, log0, r) ==
    IF r.exc # "" THEN Raised(r, log0 \o r.log)
    ELSE Returned(update_attrs(Sum(Zip(Mul, X, r.weights), r.op_over_dims)),
                  log0 \o r.log \o <<"arith">>)

weighted_sum(X, W, d) ==
    SumResolved(X, WarnIfNone(W, "sum"), _get_weights_and_dims(X, None, W, d))

\* lines 126-130, once the nested weighted_sum is back
MeanSummed(log0, r, s) ==
    IF s.exc # "" THEN Raised(s, log0 \o r.log \o s.log)
    ELSE Returned(update_attrs(Zip(Div, s.val, Sum(r.weights, r.op_over_dims))),
                  log0 \o r.log \o s.log \o <<"arith">>)

\* lines 126-130
MeanResolved(X, log0, r) ==
    IF r.exc # "" THEN Raised(r, log0 \o r.log)
    ELSE MeanSummed(log0, r, weighted_sum(X, r.weights, DimList(r.op_over_dims)))

weighted_mean(X, W, d) ==
    MeanResolved(X, WarnIfNone(W, "mean"), _get_weights_and_dims(X, None, W, d))

\* lines 169-175, once the nested weighted_mean is back
StdMeaned(X, delta, log0, r, m) ==
    IF m.exc # "" THEN Raised(m, log0 \o r.log \o m.log)
    ELSE Returned(
             update_attrs(
                 Map(Sqrt,
                     Zip(Div,
                         Sum(Zip(Mul, r.weights, Map(Square, Zip(Sub, X, m.val))),
                             r.op_over_dims),
                         Map(LAMBDA v : Sub(v, Num(delta)),
                             Sum(r.weights, r.op_over_dims))))),
             log0 \o r.log \o m.log \o <<"arith">>)

\* lines 167-175
StdResolved(X, delta, log0, r) ==
    IF r.exc # "" THEN Raised(r, log0 \o r.log)
    ELSE StdMeaned(X, delta, log0, r,
                   weighted_mean(X, r.weights, DimList(r.op_over_dims)))

weighted_std(X, W, d, delta) ==
    StdResolved(X, delta, WarnIfNone(W, "standard deviation"),
                _get_weights_and_dims(X, None, W, d))

\* line 207, once the nested weighted_mean is back
RmsdMeaned(log0, r, m) ==
    IF m.exc # "" THEN Raised(m, log0 \o r.log \o <<"arith">> \o m.log)
    ELSE Returned(Map(Sqrt, m.val), log0 \o r.log \o <<"arith">> \o m.log)

\* lines 205-207
RmsdResolved(X, Y, log0, r) ==
    IF r.exc # "" THEN Raised(r, log0 \o r.log)
    ELSE RmsdMeaned(log0, r,
                    weighted_mean(Map(Square, Zip(Sub, X, Y)), r.weights,
                                  DimList(r.op_over_dims)))

weighted_rmsd(X, Y, W, d) ==
    RmsdResolved(X, Y, WarnIfNone(W, "root-mean-square-deviation"),
                 _get_weights_and_dims(X, Y, W, d))

\* line 241, once the mean of dev_xy is back
CovDone(log, mx, my, c) ==
    IF c.exc # "" THEN Raised(c, log \o c.log)
    ELSE [exc |-> "", at |-> 0, val |-> c.val, log |-> log \o c.log,
          mean_x |-> mx.val, mean_y |-> my.val]

\* lines 237-241, once mean_x and mean_y are back
CovMeaned(X, Y, log0, r, mx, my) ==
    IF mx.exc # "" THEN Raised(mx, log0 \o r.log \o mx.log)
    ELSE IF my.exc # "" THEN Raised(my, log0 \o r.log \o mx.log \o my.log)
    ELSE CovDone(log0 \o r.log \o mx.log \o my.log \o <<"arith">>, mx, my,
                 weighted_mean(Zip(Mul, Zip(Sub, X, mx.val), Zip(Sub, Y, my.val)),
                               r.weights, DimList(r.op_over_dims)))

\* lines 234-241
CovResolved(X, Y, log0, r) ==
    IF r.exc # "" THEN Raised(r, log0 \o r.log)
    ELSE CovMeaned(X, Y, log0, r,
                   weighted_mean(X, r.weights, DimList(r.op_over_dims)),
                   weighted_mean(Y, r.weights, DimList(r.op_over_dims)))

weighted_cov(X, Y, W, d) ==
    CovResolved(X, Y, WarnIfNone(W, "weighted covariance"),
                _get_weights_and_dims(X, Y, W, d))

\* lines 268-274, once the three covariances are back
CorrCoved(log0, r, cxy, cxx, cyy) ==
    IF cxy.exc # "" THEN Raised(cxy, log0 \o r.log \o cxy.log)
    ELSE IF cxx.exc # "" THEN Raised(cxx, log0 \o r.log \o cxy.log \o cxx.log)
    ELSE IF cyy.exc # ""
    THEN Raised(cyy, log0 \o r.log \o cxy.log \o cxx.log \o cyy.log)
    ELSE [exc |-> "", at |-> 0,
          val |-> Zip(Div, cxy.val, Map(Sqrt, Zip(Mul, cxx.val, cyy.val))),
          log |-> log0 \o r.log \o cxy.log \o cxx.log \o cyy.log \o <<"arith">>,
          mean_x |-> cxy.mean_x, mean_y |-> cxy.mean_y]

\* lines 268-274
CorrResolved(X, Y, log0, r) ==
    IF r.exc # "" THEN Raised(r, log0 \o r.log)
    ELSE CorrCoved(log0, r,
                   weighted_cov(X, Y, r.weights, DimList(r.op_over_dims)),
                   weighted_cov(X, X, r.weights, DimList(r.op_over_dims)),
                   weighted_cov(Y, Y, r.weights, DimList(r.op_over_dims)))

weighted_corr(X, Y, W, d) ==
    CorrResolved(X, Y, WarnIfNone(W, "weighted correlation"),
                 _get_weights_and_dims(X, Y, W, d))

---------------------------------------------------------------------------
(* The caller's arrays. *)

\* axis names a caller may ask for; "z" is an axis of no array.  A name is
\* not empty (line 24 takes dim = "" for an absent dim) and a list names no
\* axis twice
Names == {"a", "b", "z"}

\* the place of index tuple t in row order and in column order, from 1
Rank(shape, t) == IF Len(shape) = 1 THEN t[1] ELSE (t[1] - 1) * shape[2] + t[2]

ColRank(shape, t) == IF Len(shape) = 1 THEN t[1] ELSE (t[2] - 1) * shape[1] + t[1]

\* the sets of missing positions: none, one element, or the first m elements
\* in row or in column order
Missings(shape) ==
    {{}} \cup {{t} : t \in Idx(shape)}
         \cup {{t \in Idx(shape) : Rank(shape, t) <= m} : m \in 2..MaxMissing}
         \cup {{t \in Idx(shape) : ColRank(shape, t) <= m} : m \in 2..MaxMissing}

Shapes(dims) == [1..Len(dims) -> 1..MaxLen]

\* x: one or two axes, valued 1, 2, 3, ... in row order, NaN where missing
Xs ==
    UNION {UNION {{Arr(dims, shape,
                       [t \in Idx(shape) |-> IF t \in S THEN NaN
                                             ELSE Num(Rank(shape, t))]) :
                      S \in Missings(shape)} :
                  shape \in Shapes(dims)} :
           dims \in {<<"a">>, <<"a", "b">>}}

Longer(shape) == [shape EXCEPT ![1] = @ + 1]

YVal(p) == ((p * p) % 5) + 1

\* y: on the axes of x; complete, or its last element missing, or one longer
\* than x along the first axis
Ys(X) ==
    {Arr(X.dims, X.shape, [t \in Idx(X.shape) |-> Num(YVal(Rank(X.shape, t)))]),
     Arr(X.dims, X.shape,
         [t \in Idx(X.shape) |-> IF \A i \in 1..Len(t) : t[i] = X.shape[i] THEN NaN
                                 ELSE Num(YVal(Rank(X.shape, t)))]),
     Arr(X.dims, Longer(X.shape),
         [t \in Idx(Longer(X.shape)) |-> Num(YVal(Rank(Longer(X.shape), t)))])}

\* the non-empty subsequences of a list of one or two axis names
SubDims(dims) ==
    IF Len(dims) = 1 THEN {dims} ELSE {<<dims[1]>>, <<dims[2]>>, dims}

\* an array valued 1, 2, 3, ... in row order
Ramp(dims, shape) == Arr(dims, shape, [t \in Idx(shape) |-> Num(Rank(shape, t))])

Zeros(dims, shape) == Arr(dims, shape, [t \in Idx(shape) |-> Num(0)])

\* weights: omitted, or an array over some axes of x, as long as x along
\* them or one longer along the first, valued 1, 2, 3, ... or all zero
Ws(X) ==
    {None} \cup
    UNION {{Ramp(sub, DimsShape(X, sub)), Zeros(sub, DimsShape(X, sub)),
            Ramp(sub, Longer(DimsShape(X, sub))),
            Zeros(sub, Longer(DimsShape(X, sub)))} : sub \in SubDims(X.dims)}

\* lists of distinct axis names, at most two
DimLists ==
    {<<>>} \cup {<<n>> : n \in Names}
           \cup {<<n, m>> : <<n, m>> \in {p \in Names \X Names : p[1] # p[2]}}

DimSpecs == {DimNone} \cup {DimStr(n) : n \in Names} \cup {DimList(l) : l \in DimLists}

NoResult == Returned(None, <<>>)

---------------------------------------------------------------------------
(* The caller holds x, weights and a dim argument, and y when it is about  *)
(* to compare two arrays; it calls one operator and takes the result.      *)

Init ==
    /\ x \in Xs
    /\ y \in {None} \cup Ys(x)
    /\ weights \in Ws(x)
    /\ dim \in DimSpecs
    /\ ddof = 0
    /\ pc = "idle"
    /\ op = ""
    /\ op_over_dims = <<>>
    /\ res = NoResult

\* the call returns or raises: the result is recorded, with the reduction
\* axes its line 33 computed, and the array passed as weights holds what the
\* resolution left in it
Finish(name, r) ==
    /\ pc' = "done"
    /\ op' = name
    /\ res' = r
    /\ op_over_dims' = OpOverDims(x, dim)
    /\ weights' = PassedWeightsAfter(weights,
                      _get_weights_and_dims(x, y, weights, dim).weights)
    /\ UNCHANGED <<x, y, dim>>

CallSum ==
    /\ pc = "idle" /\ ~y.some
    /\ Finish("weighted_sum", weighted_sum(x, weights, dim))
    /\ UNCHANGED ddof

CallMean ==
    /\ pc = "idle" /\ ~y.some
    /\ Finish("weighted_mean", weighted_mean(x, weights, dim))
    /\ UNCHANGED ddof

CallStd ==
    /\ pc = "idle" /\ ~y.some
    /\ \E n \in 0..MaxDdof :
        /\ ddof' = n
        /\ Finish("weighted_std", weighted_std(x, weights, dim, n))

CallRmsd ==
    /\ pc = "idle" /\ y.some
    /\ Finish("weighted_rmsd", weighted_rmsd(x, y, weights, dim))
    /\ UNCHANGED ddof

CallCov ==
    /\ pc = "idle" /\ y.some
    /\ Finish("weighted_cov", weighted_cov(x, y, weights, dim))
    /\ UNCHANGED ddof

CallCorr ==
    /\ pc = "idle" /\ y.some
    /\ Finish("weighted_corr", weighted_corr(x, y, weights, dim))
    /\ UNCHANGED ddof

\* the caller drops the result and may call again
Return ==
    /\ pc = "done"
    /\ pc' = "idle"
    /\ op' = ""
    /\ op_over_dims' = <<>>
    /\ res' = NoResult
    /\ ddof' = 0
    /\ UNCHANGED <<x, y, weights, dim>>

Next == CallSum \/ CallMean \/ CallStd \/ CallRmsd \/ CallCov \/ CallCorr \/ Return

Spec == Init /\ [][Next]_vars

---------------------------------------------------------------------------
(* What the properties below read off a state. *)

Done(name) == pc = "done" /\ op = name

Returns == res.exc = ""

\* the warnings among the events of a call
WarningsOf(log) == SelectSeq(log, LAMBDA e : e \notin {"mask", "arith"})

RECURSIVE Present(_, _)
\* the names of the list that are axes in dims, in the order of the list
Present(names, dims) ==
    IF names = <<>> THEN <<>>
    ELSE (IF Has(dims, Head(names)) THEN <<Head(names)>> ELSE <<>>)
             \o Present(Tail(names), dims)

\* the axis names the caller asked to reduce over
Asked == IF dim.t = "none" THEN x.dims ELSE dim.v

\* the axes of x among names, in the order of x, and their lengths
AxesAmong(names) == Present(x.dims, names)

LengthsAmong(names) ==
    LET ax == AxesAmong(names) IN [i \in 1..Len(ax) |-> x.shape[Pos(x.dims, ax[i])]]

\* the axes of x that are not reduced
Kept == SelectSeq(x.dims, LAMBDA n : ~Has(op_over_dims, n))

RECURSIVE Total(_, _)
\* the exact sum of f over S
Total(S, f) ==
    IF S = {} THEN Num(0)
    ELSE LET e == CHOOSE e \in S : TRUE IN Add(f[e], Total(S \ {e}, f))

\* element t of x takes part: it is not missing, nor is y's when y is given
Counted(t) == ~IsNaN(x.data[t]) /\ (y.some => ~IsNaN(y.data[t]))

\* the weight of element t of x: the caller's, found by axis name, or 1
WeightAt(t) == IF weights.some THEN At(weights, x.dims, t) ELSE Num(1)

\* the elements of x in the slice u of the axes that are kept
Slice(u) ==
    {t \in DOMAIN x.data : \A j \in 1..Len(Kept) : t[Pos(x.dims, Kept[j])] = u[j]}

SliceCounted(u) == {t \in Slice(u) : Counted(t)}

\* the weighted mean of f over the counted elements of slice u
MeanOver(u, f) ==
    Div(Total(SliceCounted(u), [t \in SliceCounted(u) |-> Mul(WeightAt(t), f[t])]),
        Total(SliceCounted(u), [t \in SliceCounted(u) |-> WeightAt(t)]))

\* the caller's weights are an array over the reduction axes of x, in the
\* order of x, as long as x along each
WeightsFit ==
    weights.some => /\ weights.dims = AxesAmong(op_over_dims)
                    /\ weights.shape = LengthsAmong(op_over_dims)

\* the call got past dimension and shape checks of its own resolution
Checked ==
    /\ op_over_dims # <<>>
    /\ WeightsFit
    /\ y.some => y.shape = x.shape

\* some slice has no weight left after masking
ZeroTotal ==
    \E u \in Idx(LengthsAmong(Kept)) :
        IsZero(Total(SliceCounted(u), [t \in SliceCounted(u) |-> WeightAt(t)]))

---------------------------------------------------------------------------
(* C3: the reduction axes are the requested names that are axes of x, in   *)
(* the requested order (all axes of x when dim is absent), and the call    *)
(* fails with the invalid-dimension error, without a result, exactly when  *)
(* none is left.                                                           *)
C3_Resolution ==
    pc = "done" =>
        /\ op_over_dims = Present(Asked, x.dims)
        /\ (Present(Asked, x.dims) = <<>>)
               <=> (res.exc = "ValueError" /\ res.at = 35 /\ ~res.val.some)

C3_Witness ==
    /\ pc = "done" /\ dim = DimStr("z") /\ Len(x.dims) = 2
    /\ res.exc = "ValueError" /\ res.at = 35

(* C5: a call warns exactly when the caller omitted weights, once, in the  *)
(* words of the operator called; the nested calls add no warning.          *)
DefaultWeightWarning(name) ==
    CASE name = "weighted_sum" ->
             "Computing sum with equal weights for all data points"
      [] name = "weighted_mean" ->
             "Computing mean with equal weights for all data points"
      [] name = "weighted_std" ->
             "Computing standard deviation with equal weights for all data points"
      [] name = "weighted_rmsd" ->
             "Computing root-mean-square-deviation with equal weights for all data points"
      [] name = "weighted_cov" ->
             "Computing weighted covariance with equal weights for all data points"
      [] name = "weighted_corr" ->
             "Computing weighted correlation with equal weights for all data points"

C5_OneWarning ==
    pc = "done" =>
        WarningsOf(res.log) =
            IF weights.some THEN <<>> ELSE <<DefaultWeightWarning(op)>>

C5_Witness ==
    /\ Done("weighted_corr") /\ ~weights.some /\ Returns
    /\ Len(res.log) > 2

(* C2: with reduction axes resolved, supplied weights whose shape is not   *)
(* that of x along those axes, or a y whose shape is not that of x, make   *)
(* the call fail with an assertion error before the weights are masked or  *)
(* any arithmetic is done on the data, and without a result.               *)
C2_ShapeMismatch ==
    (/\ pc = "done"
     /\ op_over_dims # <<>>
     /\ \/ weights.some /\ weights.shape # LengthsAmong(op_over_dims)
        \/ y.some /\ y.shape # x.shape)
    => /\ res.exc = "AssertionError" /\ res.at \in {42, 46}
       /\ ~res.val.some
       /\ res.log = WarningsOf(res.log)

C2_Witness ==
    /\ Done("weighted_rmsd") /\ op_over_dims # <<>>
    /\ weights.some /\ weights.shape = LengthsAmong(op_over_dims)
    /\ y.shape # x.shape
    /\ res.exc = "AssertionError" /\ res.at = 46

PairOps == {"weighted_rmsd", "weighted_cov", "weighted_corr"}

\* the weighted co-moment of f and g about their means, over counted elements
CoMoment(u, f, g) ==
    MeanOver(u, [t \in DOMAIN f |->
                    Mul(Sub(f[t], MeanOver(u, f)), Sub(g[t], MeanOver(u, g)))])

PairValue(name, u) ==
    CASE name = "weighted_rmsd" ->
             Sqrt(MeanOver(u, [t \in DOMAIN x.data |->
                                  Square(Sub(x.data[t], y.data[t]))]))
      [] name = "weighted_cov" -> CoMoment(u, x.data, y.data)
      [] name = "weighted_corr" ->
             Div(CoMoment(u, x.data, y.data),
                 Sqrt(Mul(CoMoment(u, x.data, x.data), CoMoment(u, y.data, y.data))))

C8_JointMask ==
    (pc = "done" /\ op \in PairOps /\ Returns) =>
        \A u \in DOMAIN res.val.data :
            /\ res.val.data[u] = PairValue(op, u)
            /\ op # "weighted_rmsd" =>
                   /\ res.mean_x.data[u] = MeanOver(u, x.data)
                   /\ res.mean_y.data[u] = MeanOver(u, y.data)

C8_Witness ==
    /\ Done("weighted_cov") /\ Returns /\ weights.some
    /\ \E t \in DOMAIN x.data : ~IsNaN(x.data[t]) /\ IsNaN(y.data[t])
    /\ \E t \in DOMAIN x.data : Counted(t)

(* C4, as written: when the total weight along the reduction axes is zero  *)
(* after masking, the call raises nothing and returns a result with a      *)
(* non-finite element.                                                     *)
C4_ZeroTotalReturns ==
    (pc = "done" /\ Checked /\ ZeroTotal) =>
        /\ Returns
        /\ \E u \in DOMAIN res.val.data : ~IsFinite(res.val.data[u])

(* C4, amended: when the total weight along the reduction axes is zero     *)
(* after masking, no operator returns: the call raises, and once the       *)
(* weights have been masked what it raises is the assertion of lines 55-57 *)
(* on the normalised weights.                                              *)
C4_ZeroTotalRaises ==
    (pc = "done" /\ Checked /\ ZeroTotal) =>
        /\ ~Returns /\ ~res.val.some
        /\ Has(res.log, "mask") => res.exc = "AssertionError" /\ res.at = 55

C4_Witness ==
    /\ Done("weighted_mean") /\ Checked /\ ZeroTotal /\ weights.some
    /\ \E t \in DOMAIN x.data : ~IsNaN(x.data[t])
    /\ res.exc = "AssertionError" /\ res.at = 55

C1_SubsetMean ==
    (/\ Done("weighted_mean") /\ ~weights.some /\ dim = DimStr("a")
     /\ x.dims = <<"a", "b">>
     /\ \A t \in DOMAIN x.data : ~IsNaN(x.data[t]))
    => /\ Returns
       /\ res.val.dims = <<"b">> /\ res.val.shape = <<x.shape[2]>>
       /\ \A u \in DOMAIN res.val.data : res.val.data[u] = MeanOver(u, x.data)

(* C6: weighted_mean, given weights that fit x along the reduction axes,   *)
(* returns for each slice the sum of w*x over the positions where x is not *)
(* missing divided by the sum of w over those positions.                   *)
C6_MissingExcluded ==
    (/\ Done("weighted_mean") /\ weights.some /\ Checked /\ ~ZeroTotal
     /\ \E t \in DOMAIN x.data : IsNaN(x.data[t]))
    => /\ Returns
       /\ res.val.dims = Kept
       /\ \A u \in DOMAIN res.val.data : res.val.data[u] = MeanOver(u, x.data)

(* C10: with weights omitted and the axes of x listed in another order     *)
(* than x's own, the generated weights are as long along each named axis   *)
(* as x is, and the call returns what it returns for x's own order.        *)
C10_ListedOrder ==
    (/\ Done("weighted_sum") /\ ~weights.some
     /\ x.dims = <<"a", "b">> /\ dim = DimList(<<"b", "a">>)
     /\ \E t \in DOMAIN x.data : ~IsNaN(x.data[t]))
    => /\ \A i \in 1..2 :
              DefaultWeights(x, op_over_dims).shape[i]
                  = x.shape[Pos(x.dims, DefaultWeights(x, op_over_dims).dims[i])]
       /\ Returns
       /\ res.val = weighted_sum(x, None, DimList(x.dims)).val

===========================================================================
